---- MODULE Spec2Model ----
(***************************************************************************)
(* A model of tools/triage_py/triage_version.py: the script lists the      *)
(* version folders of a directory, orders them (semantic versions or       *)
(* commit hashes), runs each folder's cppcheck binary on one input file    *)
(* with version-gated flags and a timeout, and prints either every result  *)
(* or, with --compare, the results at which the behaviour changed.         *)
(*                                                                         *)
(* Strings the script inspects are sequences: a directory name or version  *)
(* string is a sequence of one-character strings, a text (the output of a  *)
(* run) is a sequence of tokens where "\n", " " and "\t" are the white     *)
(* space tokens and NoisePrefix stands for the literal prefix the noise    *)
(* filter looks for.  A command line is the token list cmd.split() gives.  *)
(*                                                                         *)
(* The environment is free within these limits: every folder holds a       *)
(* cppcheck binary that starts, a binary asked for its version reports a   *)
(* release N.N (with or without "Cppcheck " and " dev"), and git answers   *)
(* with a failure or with distinct names among the commits it was given.   *)
(* Which of its outcomes an analysis run has, and what git answers, is     *)
(* chosen by the step that makes the call.                                 *)
(***************************************************************************)
EXTENDS Integers, Sequences, FiniteSets, TLC

VARIABLES args, fs, reports, pc, versions, use_hashes, git_args, git_out,
          idx, last_ec, last_out, runs, printed, exit_code

vars == <<args, fs, reports, pc, versions, use_hashes, git_args, git_out,
          idx, last_ec, last_out, runs, printed, exit_code>>

\* Python's None, and a value that is not None (kept apart from None by shape)
None == <<>>
Some(x) == <<x>>

(***************************************************************************)
(* Generic sequence helpers                                                *)
(***************************************************************************)
Range(s) == {s[i] : i \in 1..Len(s)}

\* all sequences of distinct elements of S with at most n elements
RECURSIVE DistinctSeqs(_, _)
DistinctSeqs(S, n) ==
    IF n = 0 THEN {<<>>}
    ELSE LET shorter == DistinctSeqs(S, n - 1)
         IN  shorter \cup
             UNION {{Append(s, x) : x \in S \ Range(s)} : s \in shorter}

\* str.split(sep) on a single separator token: the pieces between separators
RECURSIVE Split(_, _)
Split(s, sep) ==
    IF s = <<>> THEN <<<<>>>>
    ELSE LET rest == Split(SubSeq(s, 1, Len(s) - 1), sep)
             last == s[Len(s)]
         IN  IF last = sep THEN Append(rest, <<>>)
             ELSE [rest EXCEPT ![Len(rest)] = Append(@, last)]

\* the concatenation of a sequence of sequences
RECURSIVE Concat(_)
Concat(ss) == IF ss = <<>> THEN <<>> ELSE Head(ss) \o Concat(Tail(ss))

(***************************************************************************)
(* packaging.version.Version, for release-only version strings N(.N)*      *)
(***************************************************************************)
DigitChars == {"0", "1", "2", "3", "4", "5", "6", "7", "8", "9"}

DigitVal(c) ==
    CASE c = "0" -> 0 [] c = "1" -> 1 [] c = "2" -> 2 [] c = "3" -> 3
      [] c = "4" -> 4 [] c = "5" -> 5 [] c = "6" -> 6 [] c = "7" -> 7
      [] c = "8" -> 8 [] c = "9" -> 9

IsNumber(seg) == Len(seg) > 0 /\ \A i \in 1..Len(seg) : seg[i] \in DigitChars

RECURSIVE ParseInt(_)
ParseInt(seg) ==
    IF seg = <<>> THEN 0
    ELSE 10 * ParseInt(SubSeq(seg, 1, Len(seg) - 1)) + DigitVal(seg[Len(seg)])

\* Version(s) does not raise InvalidVersion
ValidVersion(s) ==
    LET segs == Split(s, ".") IN \A i \in 1..Len(segs) : IsNumber(segs[i])

\* Version(s), for a valid s: its release tuple
Version(s) ==
    LET segs == Split(s, ".") IN [i \in 1..Len(segs) |-> ParseInt(segs[i])]

\* release tuples compare with missing trailing segments read as 0
Seg(r, i) == IF i <= Len(r) THEN r[i] ELSE 0

\* Version(..) < Version(..), >= and <=, on the parsed versions
Less(a, b) ==
    LET n == IF Len(a) > Len(b) THEN Len(a) ELSE Len(b)
    IN  \E k \in 1..n : /\ Seg(a, k) < Seg(b, k)
                        /\ \A j \in 1..(k - 1) : Seg(a, j) = Seg(b, j)

GE(a, b) == ~Less(a, b)

LE(a, b) == ~Less(b, a)

\* list.sort(key=Version): a stable ascending sort
RECURSIVE InsertByVersion(_, _)
InsertByVersion(sorted, x) ==
    IF sorted = <<>> THEN <<x>>
    ELSE IF Less(Version(x), Version(Head(sorted))) THEN <<x>> \o sorted
    ELSE <<Head(sorted)>> \o InsertByVersion(Tail(sorted), x)

RECURSIVE SortByVersion(_)
SortByVersion(s) ==
    IF s = <<>> THEN <<>>
    ELSE InsertByVersion(SortByVersion(SubSeq(s, 1, Len(s) - 1)), s[Len(s)])

(***************************************************************************)
(* Texts                                                                   *)
(***************************************************************************)
NL == "\n"

WhiteSpace == {NL, " ", "\t"}

NoisePrefix == "[*]: (information) Unmatched suppression:"

\* str.splitlines(): the lines of a text, without a last empty piece
SplitLines(text) ==
    LET pieces == Split(text, NL)
    IN  IF pieces[Len(pieces)] = <<>> THEN SubSeq(pieces, 1, Len(pieces) - 1)
        ELSE pieces

\* str.strip(): without the leading and trailing white space
RECURSIVE Strip(_)
Strip(text) ==
    IF text = <<>> THEN <<>>
    ELSE IF Head(text) \in WhiteSpace THEN Strip(Tail(text))
    ELSE IF text[Len(text)] \in WhiteSpace THEN Strip(SubSeq(text, 1, Len(text) - 1))
    ELSE text

\* line.startswith('[*]: (information) Unmatched suppression:')
IsNoiseLine(line) == Len(line) > 0 /\ line[1] = NoisePrefix

(***************************************************************************)
(* The pure parts of the script                                            *)
(***************************************************************************)
\* the version thresholds the script compares against
V1_39 == Version(<<"1", ".", "3", "9">>)
V1_40 == Version(<<"1", ".", "4", "0">>)
V1_45 == Version(<<"1", ".", "4", "5">>)
V1_48 == Version(<<"1", ".", "4", "8">>)
V1_49 == Version(<<"1", ".", "4", "9">>)
V1_61 == Version(<<"1", ".", "6", "1">>)

\* the folder the bisect script leaves in the directory: never a version
CppcheckDir == <<"c", "p", "p", "c", "h", "e", "c", "k">>

SuppressFlags ==
    <<"--suppress=missingInclude", "--suppress=missingIncludeSystem",
      "--suppress=unmatchedSuppression", "--suppress=unusedFunction">>

\* the test of the repository argument, were None not covered
FalsyEmptyOnly(repo) == repo = ""

\* `not git_repo`: the repository argument is absent or empty
Falsy(repo) == repo \in {"None", ""}

\* version.replace('Cppcheck ', '').replace(' dev', '') of the stripped report
SanitizeVersion(report) ==
    SelectSeq(Strip(report), LAMBDA t : t \notin {"Cppcheck ", " dev"})

\* the command line, were --check-library passed from 1.60 on
BuildCmdLibraryFrom160(version, a) ==
    LET v == Version(version)
    IN  <<"cppcheck">>
        \o (IF a.compare THEN <<"-q">> ELSE <<>>)
        \o (IF a.debug /\ GE(v, V1_45) THEN <<"--debug">> ELSE <<>>)
        \o (IF a.debug_warnings /\ GE(v, V1_45) THEN <<"--debug-warnings">> ELSE <<>>)
        \o (IF a.check_library /\ GE(v, <<1, 60>>) THEN <<"--check-library">> ELSE <<>>)
        \o (IF GE(v, V1_39) THEN <<"--enable=all">> ELSE <<>>)
        \o (IF GE(v, V1_40) THEN <<"--inline-suppr">> ELSE <<>>)
        \o (IF GE(v, V1_48) THEN SuppressFlags ELSE <<>>)
        \o (IF GE(v, V1_49) THEN <<"--inconclusive">> ELSE <<>>)
        \o <<a.infile>>

\* the tokens of the command line built for one version: cmd.split()
BuildCmd(version, a) ==
    LET v == Version(version)
    IN  <<"cppcheck">>
        \o (IF a.compare THEN <<"-q">> ELSE <<>>)
        \o (IF a.debug /\ GE(v, V1_45) THEN <<"--debug">> ELSE <<>>)
        \o (IF a.debug_warnings /\ GE(v, V1_45) THEN <<"--debug-warnings">> ELSE <<>>)
        \o (IF a.check_library /\ GE(v, V1_61) THEN <<"--check-library">> ELSE <<>>)
        \o (IF GE(v, V1_39) THEN <<"--enable=all">> ELSE <<>>)
        \o (IF GE(v, V1_40) THEN <<"--inline-suppr">> ELSE <<>>)
        \o (IF GE(v, V1_48) THEN SuppressFlags ELSE <<>>)
        \o (IF GE(v, V1_49) THEN <<"--inconclusive">> ELSE <<>>)
        \o <<a.infile>>

\* the output the script records for a run: both streams, or the sentinel
TimeoutText == <<"timeout">>

\* the recorded output, were the sentinel not put in place of the streams
RecordedOutputNoSentinel(o) == o.stdout \o <<NL>> \o o.stderr

RecordedOutput(o) ==
    IF o.timeout THEN TimeoutText ELSE o.stdout \o <<NL>> \o o.stderr

\* the condition under which the noise lines are removed
NoiseFilterApplies(version, hashes) ==
    ~hashes /\ (GE(Version(version), V1_48) \/ LE(Version(version), V1_49))

\* the text without its "Unmatched suppression" lines, every line kept
\* ending in a line break
FilterNoise(text) ==
    LET lines == SplitLines(text)
        kept == SelectSeq(lines, LAMBDA l : ~IsNoiseLine(l))
    IN  Concat([i \in 1..Len(kept) |-> kept[i] \o <<NL>>])

\* the output compare mode compares and retains
CompareOutput(out, version, hashes) ==
    Strip(IF NoiseFilterApplies(version, hashes) THEN FilterNoise(out) ELSE out)

\* do_print, were the comparison of the outputs left out
DoPrintExitCodeOnly(lec, ec, lout, out) == lec # Some(ec)

\* do_print: the exit code or the output differs from the retained one
DoPrint(lec, ec, lout, out) == lec # Some(ec) \/ lout # Some(out)

\* the label test, were --compact ignored
PrintsLabelAlways(compact, do_print) == TRUE

\* the label of a later version is printed unless --compact hides it
PrintsLabel(compact, do_print) == ~compact \/ do_print

(***************************************************************************)
(* What the script prints: one item per print() call                       *)
(***************************************************************************)
Item(k, e, v, ec, text) == [k |-> k, e |-> e, v |-> v, ec |-> ec, text |-> text]

\* print(version), or print('{} ({})'.format(entry, version)) for a hash
LabelLine(entry, version, hashes) ==
    Item("label", IF hashes THEN entry ELSE <<>>, version, None, None)

\* print(ec) and print(out); the value may be None
EcLine(ec) == Item("ec", <<>>, <<>>, ec, None)

OutLine(out) == Item("out", <<>>, <<>>, None, out)

ErrorLine(msg) == Item("error", <<>>, <<>>, None, Some(<<msg>>))

\* a line printed only with --verbose
VerboseLine(msg, name, n) == Item("verbose", <<>>, name, Some(n), Some(<<msg>>))

IfVerbose(a, line) == IF a.verbose THEN <<line>> ELSE <<>>

\* the printed lines that are not --verbose diagnostics
Report(p) == SelectSeq(p, LAMBDA it : it.k # "verbose")

(***************************************************************************)
(* The environment: the directory, the binaries, the repository            *)
(***************************************************************************)
MaxVersions == 3

N1_9 == <<"1", ".", "9">>
N1_10 == <<"1", ".", "1", "0">>
N1_38 == <<"1", ".", "3", "8">>
N1_39 == <<"1", ".", "3", "9">>
N1_40 == <<"1", ".", "4", "0">>
N1_44 == <<"1", ".", "4", "4">>
N1_45 == <<"1", ".", "4", "5">>
N1_47 == <<"1", ".", "4", "7">>
N1_48 == <<"1", ".", "4", "8">>
N1_49 == <<"1", ".", "4", "9">>
N1_50 == <<"1", ".", "5", "0">>
N1_60 == <<"1", ".", "6", "0">>
N1_61 == <<"1", ".", "6", "1">>
N2_13 == <<"2", ".", "1", "3">>
HashA == <<"a", "3", "f">>
HashB == <<"b", "7", "c">>
HashC == <<"d", "0", "e">>
\* an entry of the directory that is a plain file, not a folder
PlainFile == <<"l", "o", "g">>

\* os.path.isdir(os.path.join(directory, filename))
IsDir(name) == name # PlainFile

\* what a binary prints for --version
ReportOf(version, dev) ==
    <<"Cppcheck ">> \o version \o (IF dev THEN <<" dev">> ELSE <<>>) \o <<NL>>

\* the outcome of one analysis run: it ends with an exit code and its two
\* streams, or it is still running when the timeout expires and is killed
Finding == <<"[test.c:3]: (error) Null pointer dereference", NL>>

NoiseLine == <<NoisePrefix, " missingInclude", NL>>

Ended(rc, stdout, stderr) ==
    [timeout |-> FALSE, rc |-> rc, stdout |-> stdout, stderr |-> stderr]

TimedOut == [timeout |-> TRUE, rc |-> -9, stdout |-> <<>>, stderr |-> <<>>]

Quiet == Ended(0, <<>>, <<>>)

\* the outcomes a binary can have on the input file
AnalysisOutcomes(infile) ==
    IF infile = "empty.c" THEN {Quiet}
    ELSE {Quiet, Ended(0, <<>>, Finding), Ended(1, <<>>, Finding),
          Ended(0, <<"Checking test.c ...", NL>>, Finding),
          Ended(0, <<>>, NoiseLine \o Finding), Ended(0, <<>>, NoiseLine),
          TimedOut}

\* the answers of `git rev-list --topo-order --no-walk=sorted --reverse`:
\* a failure, or the distinct commits it lists, oldest first
GitAnswers(commits) ==
    {[rc |-> 128, lines |-> <<>>]}
    \cup {[rc |-> 0, lines |-> l] :
             l \in DistinctSeqs(Range(commits), Len(commits))}

(***************************************************************************)
(* The script, step by step                                                *)
(***************************************************************************)
Hashes == use_hashes = Some(TRUE)

Say(lines) == printed' = printed \o lines

Exit(code) == /\ pc' = "exit"
              /\ exit_code' = Some(code)

\* lines 34-37: --compact without --compare
CompactWithoutCompare ==
    /\ pc = "args"
    /\ args.compact /\ ~args.compare
    /\ Say(<<ErrorLine("error: --compact requires --compare")>>)
    /\ Exit(1)
    /\ UNCHANGED <<args, fs, reports, versions, use_hashes, git_args, git_out,
                   idx, last_ec, last_out, runs>>

\* lines 32-44: the arguments are accepted
ParseArgs ==
    /\ pc = "args"
    /\ ~(args.compact /\ ~args.compare)
    /\ pc' = "listdir"
    /\ UNCHANGED <<args, fs, reports, versions, use_hashes, git_args, git_out,
                   idx, last_ec, last_out, runs, printed, exit_code>>

\* lines 46-50: the folders of the directory, in the order os.listdir gives
ListedDirs == SelectSeq(fs, IsDir)

\* lines 52-54: no folder found
NoVersionsFound ==
    /\ pc = "listdir"
    /\ Len(ListedDirs) = 0
    /\ Say(<<ErrorLine("error: no versions found")>>)
    /\ Exit(1)
    /\ UNCHANGED <<args, fs, reports, versions, use_hashes, git_args, git_out,
                   idx, last_ec, last_out, runs>>

\* lines 46-57: the folders become the versions
ListDir ==
    /\ pc = "listdir"
    /\ Len(ListedDirs) # 0
    /\ versions' = ListedDirs
    /\ Say(IfVerbose(args, VerboseLine("found versions", <<>>, Len(ListedDirs))))
    /\ pc' = "detect"
    /\ UNCHANGED <<args, fs, reports, use_hashes, git_args, git_out,
                   idx, last_ec, last_out, runs, exit_code>>

\* lines 59-63: the try block raises, in Version(versions[0]) or in the sort
\* (a key that raises leaves the list as it was)
TryRaises(vs) ==
    IF ~ValidVersion(vs[1]) THEN TRUE
    ELSE \E i \in 1..Len(vs) : ~ValidVersion(vs[i])

\* lines 59-62 and 81-82: semantic versions, sorted
SortVersions ==
    /\ pc = "detect"
    /\ ~TryRaises(versions)
    /\ use_hashes' = Some(FALSE)
    /\ versions' = SortByVersion(versions)
    /\ Say(IfVerbose(args, VerboseLine("analyzing", <<>>, 0)))
    /\ pc' = "loop"
    /\ UNCHANGED <<args, fs, reports, git_args, git_out,
                   idx, last_ec, last_out, runs, exit_code>>

\* lines 64-65
NotAVersionLine ==
    IfVerbose(args, VerboseLine("not a version - assuming commit hashes",
                                versions[1], 0))

\* lines 66-68: commit hashes, and no repository to order them
MissingRepo ==
    /\ pc = "detect"
    /\ TryRaises(versions)
    /\ Falsy(args.repo)
    /\ Say(NotAVersionLine
           \o <<ErrorLine("error: git repository argument required")>>)
    /\ Exit(1)
    /\ UNCHANGED <<args, fs, reports, versions, use_hashes, git_args, git_out,
                   idx, last_ec, last_out, runs>>

\* the commits, were the bisect script's folder left among them
WithoutCppcheckKept(vs) == vs

\* lines 73-74: versions.remove('cppcheck') when it is there
WithoutCppcheck(vs) ==
    IF \E i \in 1..Len(vs) : vs[i] = CppcheckDir
    THEN LET k == CHOOSE i \in 1..Len(vs) :
                      vs[i] = CppcheckDir /\ \A j \in 1..(i - 1) : vs[j] # CppcheckDir
         IN  SubSeq(vs, 1, k - 1) \o SubSeq(vs, k + 1, Len(vs))
    ELSE vs

\* lines 69-70
UsingRepoLine == IfVerbose(args, VerboseLine("using git repository", <<>>, 0))

\* lines 22-25 and 71-76: the commits are handed to git, which answers g
AskGit(g) ==
    /\ use_hashes' = Some(TRUE)
    /\ git_args' = Some(WithoutCppcheck(versions))
    /\ git_out' = Some(g)

\* lines 26-29: git fails
SortHashesFailed ==
    /\ pc = "detect"
    /\ TryRaises(versions)
    /\ ~Falsy(args.repo)
    /\ \E g \in GitAnswers(WithoutCppcheck(versions)) :
        /\ AskGit(g)
        /\ g.rc # 0
        /\ Say(NotAVersionLine \o UsingRepoLine
               \o <<ErrorLine("error: sorting commit hashes failed"),
                    ErrorLine("fatal: bad revision")>>)
        /\ Exit(1)
        /\ UNCHANGED <<args, fs, reports, versions, idx, last_ec, last_out, runs>>

\* lines 77-79: git lists another number of commits than it was given
CountMismatch ==
    /\ pc = "detect"
    /\ TryRaises(versions)
    /\ ~Falsy(args.repo)
    /\ \E g \in GitAnswers(WithoutCppcheck(versions)) :
        /\ AskGit(g)
        /\ g.rc = 0
        /\ Len(g.lines) # Len(WithoutCppcheck(versions))
        /\ Say(NotAVersionLine \o UsingRepoLine
               \o <<ErrorLine("error: unexpected amount of versions")>>)
        /\ Exit(1)
        /\ UNCHANGED <<args, fs, reports, versions, idx, last_ec, last_out, runs>>

\* lines 30, 76 and 81-82: the versions are the commits in git's order
SortHashes ==
    /\ pc = "detect"
    /\ TryRaises(versions)
    /\ ~Falsy(args.repo)
    /\ \E g \in GitAnswers(WithoutCppcheck(versions)) :
        /\ AskGit(g)
        /\ g.rc = 0
        /\ Len(g.lines) = Len(WithoutCppcheck(versions))
        /\ versions' = g.lines
        /\ Say(NotAVersionLine \o UsingRepoLine
               \o IfVerbose(args, VerboseLine("analyzing", <<>>, 0)))
        /\ pc' = "loop"
        /\ UNCHANGED <<args, fs, reports, idx, last_ec, last_out, runs, exit_code>>

\* lines 91-98: the version string of an entry
VersionOf(entry) ==
    IF Hashes THEN SanitizeVersion(reports[entry]) ELSE entry

\* lines 132-138: without --compare every result is printed
DumpLines(label, ec, out) == <<label, EcLine(Some(ec)), OutLine(Some(out))>>

\* what --compare would print, were the label printed before the retained result
CompareLinesLabelFirst(a, label, lec, lout, ec, out) ==
    IF lec = None THEN <<label>>
    ELSE (IF PrintsLabel(a.compact, DoPrint(lec, ec, lout, out))
          THEN <<label>> ELSE <<>>)
         \o (IF DoPrint(lec, ec, lout, out)
             THEN <<EcLine(lec), OutLine(lout)>> ELSE <<>>)

\* lines 156-188: what --compare prints for a version with exit code ec and
\* compared output out, when lec and lout are retained
CompareLines(a, label, lec, lout, ec, out) ==
    IF lec = None THEN <<label>>
    ELSE (IF lec # Some(ec)
          THEN IfVerbose(a, VerboseLine("exitcode changed", label.v, 0)) ELSE <<>>)
         \o (IF lout # Some(out)
             THEN IfVerbose(a, VerboseLine("output changed", label.v, 0)) ELSE <<>>)
         \o (IF DoPrint(lec, ec, lout, out)
             THEN <<EcLine(lec), OutLine(lout)>> ELSE <<>>)
         \o (IF PrintsLabel(a.compact, DoPrint(lec, ec, lout, out))
             THEN <<label>> ELSE <<>>)

\* lines 163-164 and 190-191: the result retained for the next comparison
Retained(ec, out) == [ec |-> Some(ec), out |-> Some(out)]

\* the lines after the loop, were the retained result not printed
FlushLinesNone(compare, lec, lout) == <<>>

\* lines 193-195: after the loop --compare prints the retained result
FlushLines(compare, lec, lout) ==
    IF compare THEN <<EcLine(lec), OutLine(lout)>> ELSE <<>>

\* lines 121-130: the subprocess of one analysis run, as the script leaves it
RunRecord(entry, version, cmd, o) ==
    [entry |-> entry, version |-> version, cmd |-> cmd,
     timeout |-> o.timeout, killed |-> o.timeout,
     ec |-> o.rc, out |-> RecordedOutput(o)]

\* lines 87-191: one iteration of the loop, the analysis run ending as o
RunVersion ==
    /\ pc = "loop"
    /\ idx < Len(versions)
    /\ LET entry == versions[idx + 1]
           version == VersionOf(entry)
           cmd == BuildCmd(version, args)
           label == LabelLine(entry, version, Hashes)
           running == IfVerbose(args, VerboseLine("running", entry, Len(cmd)))
       IN  \E o \in AnalysisOutcomes(args.infile) :
              LET run == RunRecord(entry, version, cmd, o)
                  cout == CompareOutput(run.out, version, Hashes)
              IN  /\ runs' = Append(runs, run)
                  /\ IF ~args.compare
                     THEN /\ Say(running \o DumpLines(label, run.ec, run.out))
                          /\ UNCHANGED <<last_ec, last_out>>
                     ELSE /\ Say(running
                                 \o CompareLines(args, label, last_ec, last_out,
                                                 run.ec, cout))
                          /\ last_ec' = Retained(run.ec, cout).ec
                          /\ last_out' = Retained(run.ec, cout).out
    /\ idx' = idx + 1
    /\ UNCHANGED <<args, fs, reports, pc, versions, use_hashes, git_args, git_out,
                   exit_code>>

\* lines 193-198: the loop is over
Finish ==
    /\ pc = "loop"
    /\ idx = Len(versions)
    /\ Say(FlushLines(args.compare, last_ec, last_out)
           \o IfVerbose(args, VerboseLine("done", <<>>, 0)))
    /\ pc' = "done"
    /\ exit_code' = Some(0)
    /\ UNCHANGED <<args, fs, reports, versions, use_hashes, git_args, git_out,
                   idx, last_ec, last_out, runs>>

Next ==
    \/ CompactWithoutCompare
    \/ ParseArgs
    \/ NoVersionsFound
    \/ ListDir
    \/ SortVersions
    \/ MissingRepo
    \/ SortHashesFailed
    \/ CountMismatch
    \/ SortHashes
    \/ RunVersion
    \/ Finish

(***************************************************************************)
(* Initial states: the command line and the environment of one invocation  *)
(***************************************************************************)
Args(compare, compact, verbose, debug, debug_warnings, check_library, repo, infile) ==
    [compare |-> compare, compact |-> compact, verbose |-> verbose,
     debug |-> debug, debug_warnings |-> debug_warnings,
     check_library |-> check_library, repo |-> repo, infile |-> infile]

\* lines 9-20 and 84-85: the state when the script starts, for a command
\* line of A, a directory listing of L and binaries reporting as in R
InitWith(A, L, R) ==
    /\ args \in A
    /\ fs \in L
    /\ reports \in {f \in [Range(fs) -> UNION {R[n] : n \in Range(fs)}] :
                       \A n \in Range(fs) : f[n] \in R[n]}
    /\ pc = "args"
    /\ versions = <<>>
    /\ use_hashes = None
    /\ git_args = None
    /\ git_out = None
    /\ idx = 0
    /\ last_ec = None
    /\ last_out = None
    /\ runs = <<>>
    /\ printed = <<>>
    /\ exit_code = None

\* the entry names of the directories considered
EntryNames ==
    {N1_9, N1_10, N1_38, N1_39, N1_40, N1_44, N1_45, N1_47, N1_48, N1_49,
     N1_50, N1_60, N1_61, N2_13, HashA, HashB, HashC, CppcheckDir, PlainFile}

\* the first n entries of a listing, and the shorter ones
Prefixes(listing, n) ==
    {SubSeq(listing, 1, k) : k \in 0..(IF n < Len(listing) THEN n ELSE Len(listing))}

\* runs of --compare and of the default mode over the first folders of a
\* directory of releases and of a directory of commits
LoopReport(n) ==
    IF n = HashA THEN {ReportOf(N1_47, FALSE)}
    ELSE IF n = HashB THEN {ReportOf(N1_48, TRUE)}
    ELSE IF n = HashC THEN {ReportOf(N2_13, TRUE)}
    ELSE {ReportOf(n, FALSE)}

LoopArgs ==
    {Args(c[1], c[2], v, FALSE, FALSE, FALSE, "/repo", "test.c") :
        c \in BOOLEAN \X BOOLEAN, v \in BOOLEAN}
    \cup {Args(TRUE, FALSE, FALSE, FALSE, FALSE, FALSE, "None", "test.c")}

LoopListings ==
    Prefixes(<<N1_49, N1_47, N1_50, N1_48, N2_13>>, MaxVersions)
    \cup Prefixes(<<N1_39, N1_38>>, MaxVersions)
    \cup Prefixes(<<HashB, HashA, HashC>>, MaxVersions)

Init == InitWith(LoopArgs, LoopListings, [n \in EntryNames |-> LoopReport(n)])

Spec == Init /\ [][Next]_vars

\* every combination of the options, over one folder of each release around
\* the thresholds, or of a commit whose binary reports such a release
CmdVersions ==
    {N1_9, N1_10, N1_38, N1_39, N1_40, N1_44, N1_45, N1_47, N1_48, N1_49,
     N1_60, N1_61, N2_13}

CmdReport(n) ==
    IF n = HashA THEN {ReportOf(v, d) : v \in CmdVersions, d \in BOOLEAN}
    ELSE IF n = HashB THEN {ReportOf(N2_13, TRUE)}
    ELSE {ReportOf(n, FALSE)}

CmdArgs ==
    {Args(c[1], c[2], c[3], c[4], c[5], c[6], repo, "empty.c") :
        c \in BOOLEAN \X BOOLEAN \X BOOLEAN \X BOOLEAN \X BOOLEAN \X BOOLEAN,
        repo \in {"None", "/repo"}}

CmdListings ==
    {<<>>, <<HashA>>, <<N1_61, N1_38>>, <<HashA, HashB>>}
    \cup {<<n>> : n \in CmdVersions}

InitCmd == InitWith(CmdArgs, CmdListings, [n \in EntryNames |-> CmdReport(n)])

SpecCmd == InitCmd /\ [][Next]_vars

\* every listing of a few entries of a directory that mixes releases,
\* commits, the bisect script's folder and a plain file
SortNames == {N1_9, N1_10, N1_38, HashA, HashB, CppcheckDir, PlainFile}

SortReport(n) == {ReportOf(IF ValidVersion(n) THEN n ELSE N2_13, ~ValidVersion(n))}

SortArgs ==
    {Args(FALSE, FALSE, FALSE, FALSE, FALSE, FALSE, repo, "empty.c") :
        repo \in {"None", "", "/repo"}}
    \cup {Args(TRUE, TRUE, TRUE, FALSE, FALSE, FALSE, "/repo", "empty.c"),
          Args(FALSE, TRUE, FALSE, FALSE, FALSE, FALSE, "/repo", "empty.c")}

InitSort ==
    InitWith(SortArgs, DistinctSeqs(SortNames, MaxVersions),
             [n \in EntryNames |-> SortReport(n)])

SpecSort == InitSort /\ [][Next]_vars

(***************************************************************************)
(* Properties                                                              *)
(***************************************************************************)
\* the lines a step adds to the report
Added == Report(SubSeq(printed', Len(printed) + 1, Len(printed')))

\* a step that is one iteration of the loop, and the run it made
IsRun == pc = "loop" /\ Len(runs') = Len(runs) + 1

ThisRun == runs'[Len(runs')]

\* the label, and the result compare mode compares, of a run
RunLabel(r) == LabelLine(r.entry, r.version, Hashes)

Compared(r) == CompareOutput(r.out, r.version, Hashes)

\* run i gave another exit code or compared output than run i - 1
Changed(i) ==
    runs[i].ec # runs[i - 1].ec \/ Compared(runs[i]) # Compared(runs[i - 1])

\* C1: with --compare the retained result is that of the previous version,
\* and processing a later version prints the retained exit code and output
\* exactly when its own exit code or compared output differs from them
C1_Retained ==
    args.compare /\ runs # <<>> =>
        /\ last_ec = Some(runs[Len(runs)].ec)
        /\ last_out = Some(Compared(runs[Len(runs)]))

C1_Step ==
    IsRun /\ args.compare /\ runs # <<>> =>
        LET differs == \/ ThisRun.ec # runs[Len(runs)].ec
                       \/ Compared(ThisRun) # Compared(runs[Len(runs)])
            results == SelectSeq(Added, LAMBDA it : it.k \in {"ec", "out"})
        IN  /\ differs => results = <<EcLine(last_ec), OutLine(last_out)>>
            /\ ~differs => results = <<>>

\* C1: in every state the retained result is the previous version's, and every
\* iteration over a later version prints a transition exactly at a change
C1_TransitionIffChanged == [](C1_Retained) /\ [][C1_Step]_vars

\* a run of three versions where the second repeats the first and the third
\* differs in its output alone: one transition, printed at the third
C1_Witness ==
    /\ args.compare /\ ~args.compact /\ ~args.verbose
    /\ Len(runs) = 3
    /\ ~Changed(2)
    /\ runs[3].ec = runs[2].ec /\ Compared(runs[3]) # Compared(runs[2])
    /\ printed = <<RunLabel(runs[1]), RunLabel(runs[2]),
                   EcLine(Some(runs[2].ec)), OutLine(Some(Compared(runs[2]))),
                   RunLabel(runs[3])>>

\* C2: with --compare the first version prints its label alone and becomes
\* the baseline; a later version whose result differs prints the retained
\* exit code, then the retained output, then its own label
C2_Step ==
    IsRun /\ args.compare =>
        IF runs = <<>>
        THEN /\ Added = <<RunLabel(ThisRun)>>
             /\ last_ec' = Some(ThisRun.ec)
             /\ last_out' = Some(Compared(ThisRun))
        ELSE (last_ec # Some(ThisRun.ec) \/ last_out # Some(Compared(ThisRun)))
                 => Added = <<EcLine(last_ec), OutLine(last_out), RunLabel(ThisRun)>>

\* ... so a run over 1.38 and 1.39 with differing results starts with the
\* label 1.38, the exit code and output of 1.38, the label 1.39
C2_Scenario ==
    /\ args.compare /\ versions = <<N1_38, N1_39>>
    /\ Len(runs) = 2 /\ Changed(2)
    => SubSeq(Report(printed), 1, 4) =
           <<LabelLine(N1_38, N1_38, FALSE), EcLine(Some(runs[1].ec)),
             OutLine(Some(Compared(runs[1]))), LabelLine(N1_39, N1_39, FALSE)>>

\* C2: every iteration prints in the order stated, and the run over 1.38 and
\* 1.39 starts as stated
C2_PrintOrder == [](C2_Scenario) /\ [][C2_Step]_vars

\* 1.38 finds nothing, 1.39 reports one finding
C2_Witness ==
    /\ pc = "done" /\ args.compare /\ ~args.verbose
    /\ versions = <<N1_38, N1_39>>
    /\ runs[1].out = <<NL>> /\ runs[2].out = <<NL>> \o Finding
    /\ runs[1].ec = 0 /\ runs[2].ec = 0
    /\ printed = <<LabelLine(N1_38, N1_38, FALSE), EcLine(Some(0)), OutLine(Some(<<>>)),
                   LabelLine(N1_39, N1_39, FALSE), EcLine(Some(0)),
                   OutLine(Some(<<"[test.c:3]: (error) Null pointer dereference">>))>>

\* C3: with --compare --compact the first version's label is printed, a
\* later version's label is printed exactly when its result differs from
\* the retained one, and the run ends by printing the retained result
C3_Step ==
    IsRun /\ args.compare /\ args.compact =>
        LET labels == SelectSeq(Added, LAMBDA it : it.k = "label")
            differs == \/ ThisRun.ec # runs[Len(runs)].ec
                       \/ Compared(ThisRun) # Compared(runs[Len(runs)])
        IN  IF runs = <<>> \/ differs THEN labels = <<RunLabel(ThisRun)>>
            ELSE labels = <<>>

C3_End ==
    pc = "done" /\ args.compare /\ args.compact /\ runs # <<>> =>
        LET rep == Report(printed)
        IN  /\ Len(rep) >= 2
            /\ SubSeq(rep, Len(rep) - 1, Len(rep)) =
                   <<EcLine(Some(runs[Len(runs)].ec)),
                     OutLine(Some(Compared(runs[Len(runs)])))>>

\* C3: with --compact every iteration prints its label exactly when stated,
\* and a finished run ends with the retained result
C3_CompactLabels == [](C3_End) /\ [][C3_Step]_vars

\* three versions, the second repeating the first: its label is left out
C3_Witness ==
    /\ pc = "done" /\ args.compare /\ args.compact /\ ~args.verbose
    /\ Len(runs) = 3 /\ ~Changed(2) /\ Changed(3)
    /\ printed = <<RunLabel(runs[1]),
                   EcLine(Some(runs[2].ec)), OutLine(Some(Compared(runs[2]))),
                   RunLabel(runs[3]),
                   EcLine(Some(runs[3].ec)), OutLine(Some(Compared(runs[3])))>>

\* C4: a run that exceeds the timeout is killed and recorded with the output
\* "timeout" (also as compare mode compares it); it is not run again and it
\* does not end the script: the versions are run once each, in order
C4_Runs ==
    /\ \A i \in 1..Len(runs) :
          /\ runs[i].entry = versions[i]
          /\ runs[i].timeout =>
                /\ runs[i].killed
                /\ runs[i].out = <<"timeout">>
                /\ args.compare => Compared(runs[i]) = <<"timeout">>
                /\ ~args.compare =>
                       Report(printed)[3 * i] = OutLine(Some(<<"timeout">>))
    /\ Len(runs) = idx
    /\ pc = "done" => Len(runs) = Len(versions) /\ exit_code = Some(0)
    /\ pc = "exit" => runs = <<>>

C4_Step ==
    IsRun /\ ThisRun.timeout =>
        pc' = "loop" /\ idx' = idx + 1 /\ exit_code' = None

\* C4: every timed-out run is killed and recorded as "timeout", and the loop
\* goes on to the next version after it
C4_TimeoutIsRecorded == [](C4_Runs) /\ [][C4_Step]_vars

\* the first of three versions timed out and the script ran the other two
C4_Witness ==
    /\ pc = "done" /\ Len(runs) = 3
    /\ runs[1].timeout /\ ~runs[2].timeout /\ runs[3].timeout
    /\ last_out = Some(<<"timeout">>)

\* C9: with --compare, in semantic-version mode, the compared output of a
\* version from 1.48 on is its output without the noise lines, trimmed, and
\* the compared output of an older version is its output, trimmed
C9_NoiseRangeAsClaimed ==
    args.compare /\ use_hashes = Some(FALSE) /\ runs # <<>> =>
        LET r == runs[Len(runs)]
            v == Version(r.version)
            from_1_48 == v[1] > 1 \/ (v[1] = 1 /\ v[2] >= 48)
        IN  last_out = Some(IF from_1_48 THEN Strip(FilterNoise(r.out))
                            ELSE Strip(r.out))

\* C10: with --compare the step after the loop prints the last version's
\* result, once; the results printed in the whole run are those of the last
\* version of each maximal run of equal results, one more than there are
\* changes.  Without --compare nothing is retained and that step prints
\* nothing
ResultLines(r) == <<EcLine(Some(r.ec)), OutLine(Some(Compared(r)))>>

C10_Step ==
    pc = "loop" /\ pc' = "done" =>
        IF args.compare
        THEN runs # <<>> => Added = ResultLines(runs[Len(runs)])
        ELSE Added = <<>>

C10_Results ==
    /\ ~args.compare => last_ec = None /\ last_out = None
    /\ pc = "done" /\ args.compare /\ runs # <<>> =>
          LET n == Len(runs)
              results == SelectSeq(Report(printed), LAMBDA it : it.k \in {"ec", "out"})
              ends == [i \in 1..n |->
                          IF i = n THEN ResultLines(runs[i])
                          ELSE IF Changed(i + 1) THEN ResultLines(runs[i])
                          ELSE <<>>]
          IN  /\ results = Concat(ends)
              /\ Len(results) = 2 * (1 + Cardinality({i \in 2..n : Changed(i)}))

\* C10: the step after the loop prints the retained result once, and the
\* results of a finished run are those at the ends of the runs of equal results
C10_TrailingFlush == [](C10_Results) /\ [][C10_Step]_vars

\* three versions, one change: two results are printed, the last by the
\* step after the loop
C10_Witness ==
    /\ pc = "done" /\ args.compare /\ ~args.compact /\ args.verbose
    /\ Len(runs) = 3 /\ Changed(2) /\ ~Changed(3)
    /\ Report(printed) = <<RunLabel(runs[1])>> \o ResultLines(runs[1])
                         \o <<RunLabel(runs[2]), RunLabel(runs[3])>>
                         \o ResultLines(runs[3])

\* C5: the command built for a version holds a gated flag exactly when the
\* version has reached the flag's threshold (and, for --debug,
\* --debug-warnings and --check-library, the option was given); -q is there
\* exactly with --compare
C5_GatedFlags ==
    \A i \in 1..Len(runs) :
        LET r == runs[i]
            v == Version(r.version)
            From(major, minor) == v[1] > major \/ (v[1] = major /\ Seg(v, 2) >= minor)
            Has(flag) == \E j \in 1..Len(r.cmd) : r.cmd[j] = flag
        IN  /\ Has("-q") <=> args.compare
            /\ Has("--debug") <=> args.debug /\ From(1, 45)
            /\ Has("--debug-warnings") <=> args.debug_warnings /\ From(1, 45)
            /\ Has("--check-library") <=> args.check_library /\ From(1, 61)
            /\ Has("--enable=all") <=> From(1, 39)
            /\ Has("--inline-suppr") <=> From(1, 40)
            /\ Has("--suppress=missingInclude") <=> From(1, 48)
            /\ Has("--suppress=missingIncludeSystem") <=> From(1, 48)
            /\ Has("--suppress=unmatchedSuppression") <=> From(1, 48)
            /\ Has("--suppress=unusedFunction") <=> From(1, 48)
            /\ Has("--inconclusive") <=> From(1, 49)

\* 1.60 and 1.61 run with --check-library: only 1.61 is passed the flag, and
\* 1.38 is passed no gated flag at all
C5_Witness ==
    /\ args.check_library /\ args.debug /\ args.debug_warnings /\ ~args.compare
    /\ Len(runs) = 2
    /\ runs[1].version = N1_38 /\ runs[1].cmd = <<"cppcheck", "empty.c">>
    /\ runs[2].version = N1_61
    /\ \E j \in 1..Len(runs[2].cmd) : runs[2].cmd[j] = "--check-library"

\* C6: the script exits with code 1, before any analysis run, when --compact
\* comes without --compare, when the directory holds no folder, when the
\* first folder is no version and no repository is given, and when git
\* lists another number of commits than it was given
C6_FatalExits ==
    LET misuse == args.compact /\ ~args.compare
        nodirs == \A i \in 1..Len(fs) : ~IsDir(fs[i])
        norepo == /\ ~nodirs
                  /\ ~ValidVersion(ListedDirs[1])
                  /\ args.repo = "None"
        mismatch == /\ git_out # None
                    /\ git_out[1].rc = 0
                    /\ Len(git_out[1].lines) # Len(git_args[1])
    IN  /\ misuse => pc \in {"args", "exit"}
        /\ nodirs => pc \in {"args", "listdir", "exit"}
        /\ norepo => pc \in {"args", "listdir", "detect", "exit"}
        /\ mismatch => pc = "exit"
        /\ misuse \/ nodirs \/ norepo \/ mismatch =>
              /\ runs = <<>>
              /\ pc = "exit" => exit_code = Some(1)
              /\ pc # "exit" => exit_code = None

\* git listed one commit of two
C6_Witness ==
    /\ pc = "exit" /\ exit_code = Some(1) /\ runs = <<>>
    /\ git_args = Some(<<HashA, HashB>>)
    /\ git_out = Some([rc |-> 0, lines |-> <<HashB>>])
    /\ printed = <<ErrorLine("error: unexpected amount of versions")>>

\* C7: the first folder alone decides the mode: the versions are treated as
\* semantic versions, and sorted by precedence, exactly when it parses as a
\* version, and the repository is asked for only when it does not
C7_FirstEntryDecides ==
    /\ pc \in {"loop", "done"} =>
          (use_hashes = Some(FALSE) <=> ValidVersion(ListedDirs[1]))
    /\ pc = "exit" /\ printed # <<>>
          /\ printed[Len(printed)] = ErrorLine("error: git repository argument required")
          => ~ValidVersion(ListedDirs[1])
    /\ pc \in {"loop", "done"} /\ ValidVersion(ListedDirs[1]) =>
          /\ Range(versions) = Range(ListedDirs)
          /\ Len(versions) = Len(ListedDirs)
          /\ \A i, j \in 1..Len(versions) :
                i < j => ~Less(Version(versions[j]), Version(versions[i]))

\* C8: in commit-hash mode git is asked about the folders without
\* "cppcheck", the versions are run in the order git lists them, and a
\* failure of git or another number of commits ends the script with code 1
\* before any run
C8_HashOrder ==
    LET commits == SelectSeq(ListedDirs, LAMBDA n : n # CppcheckDir)
    IN  /\ git_args # None => git_args = Some(commits)
        /\ Hashes /\ pc \in {"loop", "done"} =>
              /\ git_out[1].rc = 0
              /\ Len(git_out[1].lines) = Len(commits)
              /\ versions = git_out[1].lines
              /\ [i \in 1..Len(runs) |-> runs[i].entry] =
                     SubSeq(git_out[1].lines, 1, Len(runs))
              /\ pc = "done" => Len(runs) = Len(git_out[1].lines)
        /\ git_out # None /\ git_out[1].rc # 0 =>
              /\ pc = "exit" /\ exit_code = Some(1) /\ runs = <<>>
              /\ \E i \in 1..Len(printed) :
                    printed[i] = ErrorLine("error: sorting commit hashes failed")
        /\ git_out # None /\ git_out[1].rc = 0
              /\ Len(git_out[1].lines) # Len(commits) =>
              /\ pc = "exit" /\ exit_code = Some(1) /\ runs = <<>>
              /\ printed[Len(printed)] = ErrorLine("error: unexpected amount of versions")

\* the folders a3f, cppcheck and b7c, which git lists as b7c, a3f
C8_Witness ==
    /\ pc = "done"
    /\ fs = <<HashA, CppcheckDir, HashB>>
    /\ git_args = Some(<<HashA, HashB>>)
    /\ versions = <<HashB, HashA>>
    /\ Len(runs) = 2 /\ runs[1].entry = HashB /\ runs[2].entry = HashA

====
